---- MODULE Spec2Model ----
(***************************************************************************)
(* A model of the dropcam client library (src/dropcam.go): the Dropcam     *)
(* session (endpoint table, credentials, cookie), the request helpers      *)
(* getRequest and postRequest, and the public operations Init, Cameras,    *)
(* SetProperties, GetEvents and SaveImage.                                 *)
(*                                                                         *)
(* Spec     : one caller; every public operation is one atomic action that *)
(*            draws the server's behaviour for that call from small sets.  *)
(* SpecConc : two goroutines calling Cameras() on the same unauthenticated *)
(*            Dropcam, interleaved statement by statement.                 *)
(***************************************************************************)
EXTENDS Integers, Sequences, FiniteSets, TLC

VARIABLES
    d,          \* the Dropcam struct: endpoint table, Creds, Cookie
    c,          \* the caller's *Cameras: <<>> is nil, <<[Dropcam |-> "d"]>> points at d
    files,      \* paths ioutil.WriteFile has written
    ret,        \* what the last public call returned
    io,         \* what the last public call exchanged with the network
    prevInit,   \* <<Creds>> of the call before the last one if that was an Init
                \* returning no error, <<>> otherwise
    pc,         \* SpecConc: where each goroutine stands in Cameras()
    lresp,      \* SpecConc: each goroutine's local response
    cret,       \* SpecConc: what each goroutine's Cameras() returned
    loginReqs,  \* SpecConc: login requests put on the wire
    tokenWrites \* SpecConc: stores of a non-empty token into d.Cookie

vars == <<d, c, files, ret, io, prevInit, pc, lresp, cret, loginReqs, tokenWrites>>
seqVars == <<d, c, files, ret, io, prevInit>>
concVars == <<pc, lresp, cret, loginReqs, tokenWrites>>

(***************************************************************************)
(* Bounds of the model.                                                    *)
(***************************************************************************)
\* failing transport attempts a server may answer with before it responds
MaxFail == 3
\* items in a camera-list response
MaxItems == 2

(***************************************************************************)
(* Constants of the program.                                               *)
(***************************************************************************)
NexusBase == "https://nexusapi.dropcam.com"
ApiBase == "https://www.dropcam.com"
ApiPath == "api/v1"
\* Retry(3) of getRequest
GetRetry == 3
\* postRequest sets no retry count: the request keeps the zero value
PostRetry == 0
\* the success code both status checks compare with
StatusOK == 200

Min(a, b) == IF a < b THEN a ELSE b

(***************************************************************************)
(* Small input domains.                                                    *)
(***************************************************************************)
Usernames == {"alice", "bob"}
Passwords == {"secret"}
Tokens == {"abc123", "xyz789"}
UUIDs == {"u1", "u2"}
PropNames == {"streaming.enabled"}
PropValues == {"true"}
\* the cameras the caller passes as o *Owned
CallerUUIDs == {"u1"}
FilePaths == {"img.jpg"}
\* the instants the caller passes as st and et, in seconds since the epoch
Times == {0, 1000000000}
HttpStatuses == {200, 404}
BodyStatuses == {200, 403}
ContentLengths == {"", "0", "5"}

(***************************************************************************)
(* Response bodies.  A body is a byte string that is a JSON object         *)
(* ("json"), bytes json.Unmarshal rejects ("bad": image bytes, a truncated *)
(* document), or no bytes at all ("empty").                                *)
(***************************************************************************)
RECURSIVE Flatten(_)
Flatten(items) ==
    IF items = <<>> THEN <<>> ELSE Head(items) \o Flatten(Tail(items))

OwnedLists ==
    {<<>>} \cup {<<u>> : u \in UUIDs}
           \cup {p \in {<<u, w>> : u \in UUIDs, w \in UUIDs} : p[1] # p[2]}

RECURSIVE ItemLists(_)
ItemLists(n) ==
    IF n = 0 THEN {<<>>}
    ELSE LET shorter == ItemLists(n - 1)
         IN  shorter \cup {<<o>> \o s : o \in OwnedLists,
                                       s \in {t \in shorter : Len(t) = n - 1}}

\* a camera is owned once: no uuid occurs twice in a response
Injective(s) == \A i, j \in 1..Len(s) : s[i] = s[j] => i = j

ItemsDomain == {its \in ItemLists(MaxItems) : Injective(Flatten(its))}

JsonBody(hasStatus, status, hasItems, items) ==
    [kind |-> "json", hasStatus |-> hasStatus, status |-> status,
     hasItems |-> hasItems, items |-> items]
BadBody == [kind |-> "bad", hasStatus |-> FALSE, status |-> 0,
            hasItems |-> FALSE, items |-> <<>>]
EmptyBody == [kind |-> "empty", hasStatus |-> FALSE, status |-> 0,
              hasItems |-> FALSE, items |-> <<>>]

\* an http.Response: status code, the two headers the code reads, and the
\* body as a stream that can be read once
Response(code, setCookie, contentLength, data, readErr) ==
    [StatusCode |-> code, SetCookie |-> setCookie,
     ContentLength |-> contentLength,
     Body |-> [data |-> data, consumed |-> FALSE, readErr |-> readErr]]

StatusBodies ==
    {BadBody, JsonBody(FALSE, 0, FALSE, <<>>)}
        \cup {JsonBody(TRUE, s, FALSE, <<>>) : s \in BodyStatuses}

ListBodies ==
    {BadBody, JsonBody(FALSE, 0, FALSE, <<>>)}
        \cup {JsonBody(TRUE, s, FALSE, <<>>) : s \in BodyStatuses}
        \cup {JsonBody(TRUE, s, TRUE, <<<<"u1">>>>) : s \in BodyStatuses \ {StatusOK}}
        \cup {JsonBody(TRUE, StatusOK, TRUE, its) : its \in ItemsDomain}

LoginResponses ==
    {Response(StatusOK, t, "", JsonBody(TRUE, StatusOK, FALSE, <<>>), FALSE) :
        t \in Tokens \cup {""}}
ListResponses ==
    {Response(h, "", "", b, FALSE) : h \in HttpStatuses, b \in ListBodies}
PostResponses ==
    {Response(h, "", "", b, FALSE) : h \in HttpStatuses, b \in StatusBodies}
EventResponses ==
    {Response(StatusOK, "", "", b, e) :
        b \in {BadBody, JsonBody(FALSE, 0, FALSE, <<>>)}, e \in BOOLEAN}
ImageResponses ==
    {Response(h, "", cl, BadBody, e) :
        h \in HttpStatuses, cl \in ContentLengths, e \in BOOLEAN}

(***************************************************************************)
(* ioutil.ReadAll on a response body: the bytes not yet read (none once    *)
(* the stream has been drained), and the stream after the read.            *)
(***************************************************************************)
ReadAll(rb) ==
    [data |-> IF rb.consumed THEN EmptyBody
              ELSE IF rb.readErr THEN BadBody ELSE rb.data,
     err  |-> (~rb.consumed) /\ rb.readErr,
     rb   |-> [rb EXCEPT !.consumed = TRUE]]

\* json.Unmarshal into struct{Status int}: an absent field leaves the zero value
UnmarshalBodyStatus(body) ==
    IF body.kind # "json" THEN [err |-> TRUE, Status |-> 0]
    ELSE [err |-> FALSE, Status |-> IF body.hasStatus THEN body.status ELSE 0]

\* json.Unmarshal into Cam: an absent items field leaves the nil slice
UnmarshalCam(body) ==
    IF body.kind # "json" THEN [err |-> TRUE, Items |-> <<>>, Status |-> 0]
    ELSE [err |-> FALSE,
          Items |-> IF body.hasItems THEN body.items ELSE <<>>,
          Status |-> IF body.hasStatus THEN body.status ELSE 0]

\* json.Unmarshal into the empty struct Events
UnmarshalEvents(body) == [err |-> body.kind # "json"]

getBodyRespCode(rb) ==
    LET rd == ReadAll(rb)
        u  == UnmarshalBodyStatus(rd.data)
    IN  [rc |-> IF u.err THEN 0 ELSE u.Status, err |-> u.err, rb |-> rd.rb]

(***************************************************************************)
(* The transport.  A server behaviour for one call is (nfail, r): the      *)
(* first nfail attempts get no response, every later one gets r.  A URL    *)
(* built from an endpoint that was never set has no scheme and host, so    *)
(* no attempt on it gets a response.                                       *)
(***************************************************************************)
Send(retry, endpoint, nfail, r) ==
    LET max   == IF retry > 0 THEN retry ELSE 1
        fails == IF endpoint = "" THEN max ELSE Min(nfail, max)
    IN  IF fails >= max
        THEN [res |-> <<>>, err |-> "transport error", attempts |-> max]
        ELSE [res |-> <<r>>, err |-> "", attempts |-> fails + 1]

\* getRequest without its Retry(3), as postRequest is written
getRequest_NoRetry(dd, url, v, nfail, r) ==
    LET s == Send(0, url, nfail, r)
        req == [method |-> "GET", url |-> url, suffix |-> "",
                hasCookie |-> dd.Cookie # "", cookie |-> dd.Cookie,
                referer |-> "", query |-> v, attempts |-> s.attempts]
    IN  IF s.err # ""
        THEN [resp |-> <<>>, err |-> s.err, req |-> req]
        ELSE [resp |-> s.res, err |-> "", req |-> req]

\* getRequest without the SetHeader of line 170
getRequest_NoCookieHeader(dd, url, v, nfail, r) ==
    LET s == Send(GetRetry, url, nfail, r)
        req == [method |-> "GET", url |-> url, suffix |-> "",
                hasCookie |-> FALSE, cookie |-> "",
                referer |-> "", query |-> v, attempts |-> s.attempts]
    IN  IF s.err # ""
        THEN [resp |-> <<>>, err |-> s.err, req |-> req]
        ELSE [resp |-> s.res, err |-> "", req |-> req]

\* getRequest with a retry count one too large
getRequest_RetryOneMore(dd, url, v, nfail, r) ==
    LET s == Send(GetRetry + 1, url, nfail, r)
        req == [method |-> "GET", url |-> url, suffix |-> "",
                hasCookie |-> dd.Cookie # "", cookie |-> dd.Cookie,
                referer |-> "", query |-> v, attempts |-> s.attempts]
    IN  IF s.err # ""
        THEN [resp |-> <<>>, err |-> s.err, req |-> req]
        ELSE [resp |-> s.res, err |-> "", req |-> req]

getRequest(dd, url, v, nfail, r) ==
    LET s == Send(GetRetry, url, nfail, r)
        req == [method |-> "GET", url |-> url, suffix |-> "",
                hasCookie |-> dd.Cookie # "", cookie |-> dd.Cookie,
                referer |-> "", query |-> v, attempts |-> s.attempts]
    IN  IF s.err # ""
        THEN [resp |-> <<>>, err |-> s.err, req |-> req]
        ELSE [resp |-> s.res, err |-> "", req |-> req]

(***************************************************************************)
(* The Dropcam struct.                                                     *)
(***************************************************************************)
ZeroDropcam ==
    [LoginPath |-> "", CamerasGet |-> "", CamerasUpdate |-> "",
     CamerasGetVisible |-> "", CamerasGetImagePath |-> "", EventPath |-> "",
     EventGetClipPath |-> "", PropertiesPath |-> "",
     Creds |-> [Username |-> "", Password |-> ""], Cookie |-> ""]

\* the query of the login request
LoginValues(dd) ==
    <<<<"username", dd.Creds.Username>>, <<"password", dd.Creds.Password>>>>

\* login without the check of line 226
login_NoCookieCheck(dd, nfail, r) ==
    LET g == getRequest(dd, dd.LoginPath, LoginValues(dd), nfail, r)
    IN  IF g.err # ""
        THEN [d |-> dd, err |-> "Login Request Failed", req |-> g.req,
              resp |-> g.resp, herr |-> g.err]
        ELSE [d |-> [dd EXCEPT !.Cookie = g.resp[1].SetCookie], err |-> "",
              req |-> g.req, resp |-> g.resp, herr |-> g.err]

\* login with lines 225 and 226 in the other order: the check sees the old cookie
login_CheckBeforeStore(dd, nfail, r) ==
    LET g == getRequest(dd, dd.LoginPath, LoginValues(dd), nfail, r)
    IN  IF g.err # ""
        THEN [d |-> dd, err |-> "Login Request Failed", req |-> g.req,
              resp |-> g.resp, herr |-> g.err]
        ELSE [d |-> [dd EXCEPT !.Cookie = g.resp[1].SetCookie],
              err |-> IF dd.Cookie = "" THEN "Login Returned No Cookie" ELSE "",
              req |-> g.req, resp |-> g.resp, herr |-> g.err]

\* login storing a value of the request instead of the response header
login_StoresRequestValue(dd, nfail, r) ==
    LET g == getRequest(dd, dd.LoginPath, LoginValues(dd), nfail, r)
    IN  IF g.err # ""
        THEN [d |-> dd, err |-> "Login Request Failed", req |-> g.req,
              resp |-> g.resp, herr |-> g.err]
        ELSE LET d2 == [dd EXCEPT !.Cookie = dd.Creds.Password]
             IN  [d |-> d2,
                  err |-> IF d2.Cookie = "" THEN "Login Returned No Cookie" ELSE "",
                  req |-> g.req, resp |-> g.resp, herr |-> g.err]

\* login wiping the password once it has been sent
login_ClearsPassword(dd, nfail, r) ==
    LET g == getRequest(dd, dd.LoginPath, LoginValues(dd), nfail, r)
    IN  IF g.err # ""
        THEN [d |-> dd, err |-> "Login Request Failed", req |-> g.req,
              resp |-> g.resp, herr |-> g.err]
        ELSE LET d2 == [dd EXCEPT !.Cookie = g.resp[1].SetCookie,
                                  !.Creds.Password = ""]
             IN  [d |-> d2,
                  err |-> IF d2.Cookie = "" THEN "Login Returned No Cookie" ELSE "",
                  req |-> g.req, resp |-> g.resp, herr |-> g.err]

login(dd, nfail, r) ==
    LET g == getRequest(dd, dd.LoginPath, LoginValues(dd), nfail, r)
    IN  IF g.err # ""
        THEN [d |-> dd, err |-> "Login Request Failed", req |-> g.req,
              resp |-> g.resp, herr |-> g.err]
        ELSE LET d2 == [dd EXCEPT !.Cookie = g.resp[1].SetCookie]
             IN  [d |-> d2,
                  err |-> IF d2.Cookie = "" THEN "Login Returned No Cookie" ELSE "",
                  req |-> g.req, resp |-> g.resp, herr |-> g.err]

\* the fields of ret a call does not set
NoRet == [op |-> "", err |-> "", panic |-> FALSE, nilResult |-> TRUE,
          ok |-> FALSE, Cam |-> <<>>, img |-> <<>>, wroteFile |-> FALSE]
\* reqs: the requests sent, resp: the response obtained (none: <<>>), herr: the
\* error getRequest or postRequest returned, login: login() ran, nfail: the
\* server's behaviour during the call
MkIo(reqs, resp, herr, isLogin, nfail) ==
    [reqs |-> reqs, resp |-> resp, herr |-> herr, login |-> isLogin, nfail |-> nfail]
NoIo == MkIo(<<>>, <<>>, "", FALSE, 0)

\* Init without the d.Cookie = "" of line 204
InitFields_KeepsCookie(dd, username, password) ==
    [dd EXCEPT !.LoginPath = ApiBase \o "/" \o ApiPath \o "/" \o "login.login",
               !.CamerasGet = ApiBase \o "/" \o ApiPath \o "/" \o "cameras.get",
               !.CamerasUpdate = ApiBase \o "/" \o ApiPath \o "/" \o "cameras.update",
               !.CamerasGetVisible = ApiBase \o "/" \o ApiPath \o "/" \o "cameras.get_visible",
               !.CamerasGetImagePath = ApiBase \o "/" \o ApiPath \o "/" \o "cameras.get_image",
               !.EventPath = NexusBase \o "/" \o "get_cuepoint",
               !.EventGetClipPath = NexusBase \o "/" \o "get_event_clip",
               !.PropertiesPath = ApiBase \o "/" \o "app/cameras/properties",
               !.Creds = [Username |-> username, Password |-> password]]

InitFields(dd, username, password) ==
    [dd EXCEPT !.LoginPath = ApiBase \o "/" \o ApiPath \o "/" \o "login.login",
               !.CamerasGet = ApiBase \o "/" \o ApiPath \o "/" \o "cameras.get",
               !.CamerasUpdate = ApiBase \o "/" \o ApiPath \o "/" \o "cameras.update",
               !.CamerasGetVisible = ApiBase \o "/" \o ApiPath \o "/" \o "cameras.get_visible",
               !.CamerasGetImagePath = ApiBase \o "/" \o ApiPath \o "/" \o "cameras.get_image",
               !.EventPath = NexusBase \o "/" \o "get_cuepoint",
               !.EventGetClipPath = NexusBase \o "/" \o "get_event_clip",
               !.PropertiesPath = ApiBase \o "/" \o "app/cameras/properties",
               !.Creds = [Username |-> username, Password |-> password],
               !.Cookie = ""]

InitCall(dd, username, password, nfail, r) ==
    LET lg == login(InitFields(dd, username, password), nfail, r)
    IN  [d   |-> lg.d,
         ret |-> [NoRet EXCEPT !.op = "Init", !.err = lg.err,
                               !.nilResult = (lg.err # "")],
         io  |-> MkIo(<<lg.req>>, lg.resp, lg.herr, TRUE, nfail)]

\* history: the credentials of the call that has just returned, when it was an
\* Init that reported no error
InitJustSucceeded ==
    IF ret.op = "Init" /\ ret.err = "" THEN <<d.Creds>> ELSE <<>>

\* Dropcam.Init
Init_(username, password, nfail, r) ==
    LET res == InitCall(d, username, password, nfail, r)
    IN  /\ d' = res.d
        /\ ret' = res.ret
        /\ io' = res.io
        /\ prevInit' = InitJustSucceeded
        /\ UNCHANGED <<c, files>>
        /\ UNCHANGED concVars

\* the camera-list request with an empty list reported as an error
CamerasList_EmptyIsError(dd, nfail, r) ==
    LET v == <<<<"group_cameras", "True">>>>
        g == getRequest(dd, dd.CamerasGetVisible, v, nfail, r)
        gio == MkIo(<<g.req>>, g.resp, g.err, FALSE, nfail)
    IN  IF g.err # ""
        THEN [d   |-> dd,
              ret |-> [NoRet EXCEPT !.op = "Cameras",
                                    !.err = "Get Visible Cameras Request Failed"],
              io  |-> gio]
        ELSE LET cam == UnmarshalCam(ReadAll(g.resp[1].Body).data)
             IN  IF cam.err \/ Flatten(cam.Items) = <<>>
                 THEN [d   |-> dd,
                       ret |-> [NoRet EXCEPT !.op = "Cameras", !.err = "json error"],
                       io  |-> gio]
                 ELSE [d   |-> dd,
                       ret |-> [NoRet EXCEPT !.op = "Cameras", !.nilResult = FALSE,
                                             !.Cam = Flatten(cam.Items)],
                       io  |-> gio]

\* the camera-list request dropping the cookie when the request fails
CamerasList_ClearsCookieOnError(dd, nfail, r) ==
    LET v == <<<<"group_cameras", "True">>>>
        g == getRequest(dd, dd.CamerasGetVisible, v, nfail, r)
        gio == MkIo(<<g.req>>, g.resp, g.err, FALSE, nfail)
    IN  IF g.err # ""
        THEN [d   |-> [dd EXCEPT !.Cookie = ""],
              ret |-> [NoRet EXCEPT !.op = "Cameras",
                                    !.err = "Get Visible Cameras Request Failed"],
              io  |-> gio]
        ELSE LET cam == UnmarshalCam(ReadAll(g.resp[1].Body).data)
             IN  IF cam.err
                 THEN [d   |-> dd,
                       ret |-> [NoRet EXCEPT !.op = "Cameras", !.err = "json error"],
                       io  |-> gio]
                 ELSE [d   |-> dd,
                       ret |-> [NoRet EXCEPT !.op = "Cameras", !.nilResult = FALSE,
                                             !.Cam = Flatten(cam.Items)],
                       io  |-> gio]

\* Dropcam.Cameras after its cookie check: the camera-list request
CamerasList(dd, nfail, r) ==
    LET v == <<<<"group_cameras", "True">>>>
        g == getRequest(dd, dd.CamerasGetVisible, v, nfail, r)
    IN  IF g.err # ""
        THEN [d   |-> dd,
              ret |-> [NoRet EXCEPT !.op = "Cameras",
                                    !.err = "Get Visible Cameras Request Failed"],
              io  |-> MkIo(<<g.req>>, g.resp, g.err, FALSE, nfail)]
        ELSE LET rd  == ReadAll(g.resp[1].Body)
                 cam == UnmarshalCam(rd.data)
             IN  IF cam.err
                 THEN [d   |-> dd,
                       ret |-> [NoRet EXCEPT !.op = "Cameras", !.err = "json error"],
                       io  |-> MkIo(<<g.req>>, g.resp, g.err, FALSE, nfail)]
                 ELSE [d   |-> dd,
                       ret |-> [NoRet EXCEPT !.op = "Cameras", !.nilResult = FALSE,
                                             !.Cam = Flatten(cam.Items)],
                       io  |-> MkIo(<<g.req>>, g.resp, g.err, FALSE, nfail)]

\* Dropcam.Cameras
CamerasCall(dd, nfail, r) ==
    IF dd.Cookie = ""
    THEN LET lg == login(dd, nfail, r)
         IN  [d   |-> lg.d,
              ret |-> [NoRet EXCEPT !.op = "Cameras", !.err = lg.err],
              io  |-> MkIo(<<lg.req>>, lg.resp, lg.herr, TRUE, nfail)]
    ELSE CamerasList(dd, nfail, r)

Cameras_(nfail, r) ==
    LET res == CamerasCall(d, nfail, r)
    IN  /\ d' = res.d
        /\ ret' = res.ret
        /\ io' = res.io
        \* the caller keeps the returned pointer when the call reports no error
        /\ c' = IF res.ret.err # "" THEN c
                ELSE IF res.ret.nilResult THEN <<>>
                ELSE <<[Dropcam |-> "d"]>>
        /\ prevInit' = InitJustSucceeded
        /\ UNCHANGED files
        /\ UNCHANGED concVars

\* Dropcam.postRequest; resp.Status is read before any check of resp
postRequest(dd, endpoint, url, uuid, data, nfail, r) ==
    LET s   == Send(PostRetry, endpoint, nfail, r)
        req == [method |-> "POST", url |-> url, suffix |-> uuid,
                hasCookie |-> TRUE, cookie |-> dd.Cookie,
                referer |-> ApiBase \o "/" \o "watch" \o "/" \o uuid,
                query |-> data, attempts |-> s.attempts]
    IN  IF s.res = <<>>
        THEN [resp |-> <<>>, err |-> "", panic |-> TRUE, req |-> req, got |-> <<>>]
        ELSE LET b == getBodyRespCode(s.res[1].Body)
                 drained == [s.res[1] EXCEPT !.Body = b.rb]
             IN  IF b.err
                 THEN [resp |-> <<>>, err |-> "Failed to get Reply Response Code",
                       panic |-> FALSE, req |-> req, got |-> s.res]
                 ELSE IF b.rc # StatusOK
                 THEN [resp |-> <<>>, err |-> "Malformed Request",
                       panic |-> FALSE, req |-> req, got |-> s.res]
                 ELSE [resp |-> <<drained>>, err |-> "",
                       panic |-> FALSE, req |-> req, got |-> s.res]

\* Cameras.SetProperties
SetPropertiesCall(cc, dd, uuid, name, value, nfail, r) ==
    IF cc = <<>>
    THEN [ret |-> [NoRet EXCEPT !.op = "SetProperties", !.panic = TRUE], io |-> NoIo]
    ELSE LET url   == dd.PropertiesPath \o uuid
             props == <<<<"camera_uuid", uuid>>, <<"name", name>>, <<"value", value>>>>
             p     == postRequest(dd, dd.PropertiesPath, url, uuid, props, nfail, r)
             pio   == MkIo(<<p.req>>, p.got, p.err, FALSE, nfail)
         IN  IF p.panic
             THEN [ret |-> [NoRet EXCEPT !.op = "SetProperties", !.panic = TRUE],
                   io |-> pio]
             ELSE IF p.err # ""
             THEN [ret |-> [NoRet EXCEPT !.op = "SetProperties",
                                         !.err = "Failed postRequest "],
                   io |-> pio]
             ELSE LET b == getBodyRespCode(p.resp[1].Body)
                  IN  IF b.err
                      THEN [ret |-> [NoRet EXCEPT !.op = "SetProperties",
                                         !.err = "Failed to get Reply Response Code"],
                            io |-> pio]
                      ELSE IF b.rc # StatusOK
                      THEN [ret |-> [NoRet EXCEPT !.op = "SetProperties",
                                         !.err = "SeProperties Malformed Request"],
                            io |-> pio]
                      ELSE [ret |-> [NoRet EXCEPT !.op = "SetProperties", !.ok = TRUE],
                            io |-> pio]

SetProperties_(uuid, name, value, nfail, r) ==
    LET res == SetPropertiesCall(c, d, uuid, name, value, nfail, r)
    IN  /\ ret' = res.ret
        /\ io' = res.io
        /\ prevInit' = InitJustSucceeded
        /\ UNCHANGED <<d, c, files>>
        /\ UNCHANGED concVars

\* the day GetEvents takes off et (line 328)
OneDay == 60 * 60 * 24

\* Cameras.GetEvents; st and et are st.Unix() and et.Unix()
GetEventsCall(cc, dd, uuid, st, et, nfail, r) ==
    IF cc = <<>>
    THEN [ret |-> [NoRet EXCEPT !.op = "GetEvents", !.panic = TRUE], io |-> NoIo]
    ELSE LET v == << <<"uuid", uuid>>,
                        <<"start_time", ToString(st)>>,
                        <<"end_time", ToString(et - OneDay)>>,
                        <<"human", "True">> >>
             g == getRequest(dd, dd.EventPath, v, nfail, r)
             gio == MkIo(<<g.req>>, g.resp, g.err, FALSE, nfail)
         IN  IF g.err # ""
             THEN [ret |-> [NoRet EXCEPT !.op = "GetEvents",
                                         !.err = "Get Visible Cameras Request Failed"],
                   io |-> gio]
             ELSE LET rd == ReadAll(g.resp[1].Body)
                  IN  IF rd.err
                      THEN [ret |-> [NoRet EXCEPT !.op = "GetEvents",
                                         !.err = "EVent ioutil.ReadAll failed"],
                            io |-> gio]
                      ELSE IF UnmarshalEvents(rd.data).err
                      THEN [ret |-> [NoRet EXCEPT !.op = "GetEvents", !.err = "json error"],
                            io |-> gio]
                      ELSE [ret |-> [NoRet EXCEPT !.op = "GetEvents"], io |-> gio]

GetEvents_(uuid, st, et, nfail, r) ==
    LET res == GetEventsCall(c, d, uuid, st, et, nfail, r)
    IN  /\ ret' = res.ret
        /\ io' = res.io
        /\ prevInit' = InitJustSucceeded
        /\ UNCHANGED <<d, c, files>>
        /\ UNCHANGED concVars

\* getImage with && for the || of line 378
getImage_AndForOr(dd, uuid, nfail, r) ==
    LET v == <<<<"uuid", uuid>>, <<"width", "720">>>>
        g == getRequest(dd, dd.CamerasGetImagePath, v, nfail, r)
    IN  IF g.err # ""
        THEN [img |-> <<>>, err |-> "Get Image Failed", req |-> g.req,
              resp |-> g.resp, herr |-> g.err]
        ELSE LET rd == ReadAll(g.resp[1].Body)
             IN  IF rd.err
                 THEN [img |-> <<>>, err |-> "Failed to get Reply Response Code",
                       req |-> g.req, resp |-> g.resp, herr |-> g.err]
                 ELSE IF g.resp[1].StatusCode # StatusOK
                         /\ g.resp[1].ContentLength = "0"
                 THEN [img |-> <<>>, err |-> "Malformed Request or image has 0 size",
                       req |-> g.req, resp |-> g.resp, herr |-> g.err]
                 ELSE [img |-> <<rd.data>>, err |-> "", req |-> g.req,
                       resp |-> g.resp, herr |-> g.err]

\* Cameras.getImage
getImage(dd, uuid, nfail, r) ==
    LET v == <<<<"uuid", uuid>>, <<"width", "720">>>>
        g == getRequest(dd, dd.CamerasGetImagePath, v, nfail, r)
    IN  IF g.err # ""
        THEN [img |-> <<>>, err |-> "Get Image Failed", req |-> g.req,
              resp |-> g.resp, herr |-> g.err]
        ELSE LET rd == ReadAll(g.resp[1].Body)
             IN  IF rd.err
                 THEN [img |-> <<>>, err |-> "Failed to get Reply Response Code",
                       req |-> g.req, resp |-> g.resp, herr |-> g.err]
                 ELSE IF g.resp[1].StatusCode # StatusOK
                         \/ g.resp[1].ContentLength = "0"
                 THEN [img |-> <<>>, err |-> "Malformed Request or image has 0 size",
                       req |-> g.req, resp |-> g.resp, herr |-> g.err]
                 ELSE [img |-> <<rd.data>>, err |-> "", req |-> g.req,
                       resp |-> g.resp, herr |-> g.err]

\* Cameras.SaveImage; writeOk is whether ioutil.WriteFile succeeds
SaveImageCall(cc, dd, fs, uuid, path, nfail, r, writeOk) ==
    IF cc = <<>>
    THEN [ret |-> [NoRet EXCEPT !.op = "SaveImage", !.panic = TRUE], io |-> NoIo,
          files |-> fs]
    ELSE LET g == getImage(dd, uuid, nfail, r)
             gio == MkIo(<<g.req>>, g.resp, g.herr, FALSE, nfail)
         IN  IF g.err # ""
             THEN [ret |-> [NoRet EXCEPT !.op = "SaveImage", !.err = g.err],
                   io |-> gio, files |-> fs]
             ELSE IF ~writeOk
             THEN [ret |-> [NoRet EXCEPT !.op = "SaveImage", !.err = "write error",
                                         !.img = g.img, !.wroteFile = TRUE],
                   io |-> gio, files |-> fs]
             ELSE [ret |-> [NoRet EXCEPT !.op = "SaveImage", !.img = g.img,
                                         !.wroteFile = TRUE],
                   io |-> gio, files |-> fs \cup {path}]

SaveImage_(uuid, path, nfail, r, writeOk) ==
    LET res == SaveImageCall(c, d, files, uuid, path, nfail, r, writeOk)
    IN  /\ ret' = res.ret
        /\ io' = res.io
        /\ files' = res.files
        /\ prevInit' = InitJustSucceeded
        /\ UNCHANGED <<d, c>>
        /\ UNCHANGED concVars

SeqInit ==
    /\ d = ZeroDropcam
    /\ c = <<>>
    /\ files = {}
    /\ ret = NoRet
    /\ io = NoIo
    /\ prevInit = <<>>
    /\ pc = [g \in {} |-> ""]
    /\ lresp = [g \in {} |-> <<>>]
    /\ cret = [g \in {} |-> NoRet]
    /\ loginReqs = 0
    /\ tokenWrites = 0

DoInit ==
    \E u \in Usernames, p \in Passwords, nfail \in 0..MaxFail, r \in LoginResponses :
        Init_(u, p, nfail, r)

DoCameras ==
    \E nfail \in 0..MaxFail, r \in LoginResponses \cup ListResponses :
        /\ IF d.Cookie = "" THEN r \in LoginResponses ELSE r \in ListResponses
        /\ Cameras_(nfail, r)

DoSetProperties ==
    \E u \in CallerUUIDs, n \in PropNames, v \in PropValues,
       nfail \in 0..MaxFail, r \in PostResponses :
        SetProperties_(u, n, v, nfail, r)

DoGetEvents ==
    \E u \in CallerUUIDs, st \in Times, et \in Times, nfail \in 0..MaxFail,
       r \in EventResponses :
        GetEvents_(u, st, et, nfail, r)

DoSaveImage ==
    \E u \in CallerUUIDs, p \in FilePaths, nfail \in 0..MaxFail, r \in ImageResponses,
       writeOk \in BOOLEAN :
        SaveImage_(u, p, nfail, r, writeOk)

Next ==
    \/ DoInit
    \/ DoCameras
    \/ DoSetProperties
    \/ DoGetEvents
    \/ DoSaveImage

Spec == SeqInit /\ [][Next]_vars

(***************************************************************************)
(* Two goroutines call Cameras() on one Dropcam whose Init has failed      *)
(* (endpoints and credentials set, Cookie empty).  The code takes no lock, *)
(* so the statements of Cameras and login interleave: the cookie check     *)
(* (line 240), the login request (220), the store to d.Cookie (225), the   *)
(* re-read of d.Cookie (226) and the camera-list request (247).            *)
(***************************************************************************)
Goroutines == {1, 2}

ConcInit ==
    /\ d \in {InitFields(ZeroDropcam, u, p) : u \in Usernames, p \in Passwords}
    /\ c = <<>>
    /\ files = {}
    /\ ret = NoRet
    /\ io = NoIo
    /\ prevInit = <<>>
    /\ pc = [g \in Goroutines |-> "start"]
    /\ lresp = [g \in Goroutines |-> <<>>]
    /\ cret = [g \in Goroutines |-> NoRet]
    /\ loginReqs = 0
    /\ tokenWrites = 0

\* line 240: if d.Cookie == ""
CamCheck(g) ==
    /\ pc[g] = "start"
    /\ pc' = [pc EXCEPT ![g] = IF d.Cookie = "" THEN "login_send" ELSE "list_send"]
    /\ UNCHANGED <<lresp, cret, loginReqs, tokenWrites>>
    /\ UNCHANGED seqVars

\* lines 216-224: the login request and its error return
LoginSend(g, nfail, r) ==
    /\ pc[g] = "login_send"
    /\ LET rq == getRequest(d, d.LoginPath, LoginValues(d), nfail, r)
       IN  /\ loginReqs' = loginReqs + 1
           /\ IF rq.err # ""
              THEN /\ cret' = [cret EXCEPT ![g] = [NoRet EXCEPT !.op = "Cameras",
                                                   !.err = "Login Request Failed"]]
                   /\ pc' = [pc EXCEPT ![g] = "done"]
                   /\ UNCHANGED lresp
              ELSE /\ lresp' = [lresp EXCEPT ![g] = rq.resp]
                   /\ pc' = [pc EXCEPT ![g] = "login_write"]
                   /\ UNCHANGED cret
    /\ UNCHANGED tokenWrites
    /\ UNCHANGED seqVars

\* line 225: d.Cookie = response.Header.Get("Set-Cookie")
LoginWrite(g) ==
    /\ pc[g] = "login_write"
    /\ d' = [d EXCEPT !.Cookie = lresp[g][1].SetCookie]
    /\ tokenWrites' = IF lresp[g][1].SetCookie # "" THEN tokenWrites + 1
                      ELSE tokenWrites
    /\ pc' = [pc EXCEPT ![g] = "login_check"]
    /\ UNCHANGED <<lresp, cret, loginReqs>>
    /\ UNCHANGED <<c, files, ret, io, prevInit>>

\* lines 226-231 and the return of line 241
LoginCheck(g) ==
    /\ pc[g] = "login_check"
    /\ cret' = [cret EXCEPT ![g] =
                  [NoRet EXCEPT !.op = "Cameras",
                                !.err = IF d.Cookie = ""
                                        THEN "Login Returned No Cookie" ELSE ""]]
    /\ pc' = [pc EXCEPT ![g] = "done"]
    /\ UNCHANGED <<lresp, loginReqs, tokenWrites>>
    /\ UNCHANGED seqVars

\* lines 244-270
ListSend(g, nfail, r) ==
    /\ pc[g] = "list_send"
    /\ cret' = [cret EXCEPT ![g] = CamerasList(d, nfail, r).ret]
    /\ pc' = [pc EXCEPT ![g] = "done"]
    /\ UNCHANGED <<lresp, loginReqs, tokenWrites>>
    /\ UNCHANGED seqVars

NextConc ==
    \/ \E g \in Goroutines : CamCheck(g)
    \/ \E g \in Goroutines, nfail \in 0..MaxFail, r \in LoginResponses :
           LoginSend(g, nfail, r)
    \/ \E g \in Goroutines : LoginWrite(g)
    \/ \E g \in Goroutines : LoginCheck(g)
    \/ \E g \in Goroutines, nfail \in 0..MaxFail, r \in ListResponses :
           ListSend(g, nfail, r)

SpecConc == ConcInit /\ [][NextConc]_vars

(***************************************************************************)
(* Properties.                                                             *)
(***************************************************************************)
\* the response obtained by the last call carries a decodable body status
GotResponse == io.resp # <<>>
BodyDecodes == GotResponse /\ io.resp[1].Body.data.kind = "json"
BodyStatusOf == IF io.resp[1].Body.data.hasStatus
                THEN io.resp[1].Body.data.status ELSE 0
Authenticated == d.Cookie # ""

\* the last call was SetProperties on a non-nil *Cameras and sent its POST
PostSent == ret.op = "SetProperties" /\ io.reqs # <<>>

\* C1: SetProperties on an authenticated session returns (true, nil) when the
\* POST is answered with transport status 200 and body status 200, and an
\* error when the body status is any other value.
C1_SetPropertiesContract ==
    (PostSent /\ Authenticated /\ BodyDecodes) =>
        /\ (io.resp[1].StatusCode = StatusOK /\ BodyStatusOf = StatusOK)
               => (ret.ok /\ ret.err = "" /\ ~ret.panic)
        /\ (BodyStatusOf # StatusOK) => (ret.err # "" /\ ~ret.ok)

\* C2: postRequest returns no error if and only if the transport status is
\* 200 and the decoded body status is 200.
C2_PostSuccessIffBoth200 ==
    (PostSent /\ GotResponse) =>
        ((io.herr = "" /\ ~ret.panic)
            <=> (/\ io.resp[1].StatusCode = StatusOK
                 /\ BodyDecodes
                 /\ BodyStatusOf = StatusOK))

\* the last call was a Cameras() that found the cookie empty and logged in
CamerasLoggedIn == ret.op = "Cameras" /\ io.login

\* C3: Cameras() on an unauthenticated session logs in first; when the login
\* succeeds the same call goes on to send the camera-list request and returns
\* its result, and when the login fails it returns the authentication error.
C3_CamerasProceedsAfterLogin ==
    CamerasLoggedIn =>
        /\ io.reqs[1].url = d.LoginPath
        /\ io.reqs[1].query = LoginValues(d)
        /\ (Authenticated
               => /\ Len(io.reqs) = 2
                  /\ io.reqs[2].url = d.CamerasGetVisible
                  /\ (ret.err = "" => ~ret.nilResult))
        /\ (~Authenticated => ret.err \in {"Login Request Failed",
                                           "Login Returned No Cookie"})

\* the login request of the last call got a response without a token header
LoginGotNoToken ==
    /\ io.login
    /\ GotResponse
    /\ io.resp[1].SetCookie = ""

\* C4: when the login request obtains a response whose token header is empty
\* or absent, Init (and login) returns an error and the stored token is empty
\* after the call.
C4_MissingTokenFails ==
    LoginGotNoToken => (ret.err # "" /\ ret.nilResult /\ d.Cookie = "")

C4_Witness ==
    /\ ret.op = "Init"
    /\ prevInit # <<>>
    /\ LoginGotNoToken
    /\ ret.err = "Login Returned No Cookie"

\* the server answered the login request of the last Init with a token
InitGotToken ==
    /\ ret.op = "Init"
    /\ GotResponse
    /\ io.resp[1].SetCookie # ""

\* C5: an Init whose login is answered with a token returns no error and
\* leaves the session authenticated, also when it follows a successful Init
\* with the same credentials.
C5_InitIdempotent ==
    InitGotToken => (ret.err = "" /\ ~ret.nilResult /\ d.Cookie # "")

C5_Witness ==
    /\ InitGotToken
    /\ prevInit = <<d.Creds>>
    /\ ret.err = ""
    /\ Authenticated

\* the last call sent a GET through getRequest to an endpoint that is set
GetSent ==
    /\ io.reqs # <<>>
    /\ io.reqs[1].method = "GET"
    /\ io.reqs[1].url # ""

\* C6: getRequest makes at most 3 transport attempts: when the transport
\* fails twice and then answers, the call succeeds after exactly 3 attempts;
\* when it always fails, the call returns an error after exactly 3 attempts.
C6_GetRetriesThreeTimes ==
    GetSent =>
        /\ io.reqs[1].attempts <= 3
        /\ (io.nfail < 3 => /\ io.herr = ""
                            /\ GotResponse
                            /\ io.reqs[1].attempts = io.nfail + 1)
        /\ (io.nfail >= 3 => /\ io.herr # ""
                             /\ ~GotResponse
                             /\ ret.err # ""
                             /\ io.reqs[1].attempts = 3)

C6_Witness ==
    /\ GetSent
    /\ io.nfail = 2
    /\ io.reqs[1].attempts = 3
    /\ io.herr = ""

\* C7: when no attempt of the POST obtains a response, postRequest, and so
\* SetProperties, returns an error and does not abort.
C7_PostTransportFailureIsError ==
    (PostSent /\ ~GotResponse) => (ret.err # "" /\ ~ret.panic /\ ~ret.ok)

\* the last call was a SaveImage that sent its GET
ImageSent == ret.op = "SaveImage" /\ io.reqs # <<>>

\* C8: getImage returns bytes only for a response with transport status 200
\* and a content-length header other than "0"; status 200 with content-length
\* "0" is an error; when getImage fails SaveImage writes no file.
C8_ImageNeedsNonZeroLength ==
    ImageSent =>
        /\ (ret.img # <<>> => /\ GotResponse
                              /\ io.resp[1].StatusCode = StatusOK
                              /\ io.resp[1].ContentLength # "0")
        /\ ((GotResponse /\ io.resp[1].StatusCode = StatusOK
                /\ io.resp[1].ContentLength = "0")
               => (ret.err # "" /\ ret.img = <<>>))
        /\ (ret.img = <<>> => (ret.err # "" /\ ~ret.wroteFile))

C8_Witness ==
    /\ ImageSent
    /\ GotResponse
    /\ io.resp[1].StatusCode = StatusOK
    /\ io.resp[1].ContentLength = "0"
    /\ ~io.resp[1].Body.readErr
    /\ ret.err = "Malformed Request or image has 0 size"
    /\ ~ret.wroteFile

LoginSection == {"login_send", "login_write", "login_check"}

\* C9: with concurrent callers on an unauthenticated session the transition
\* to authenticated is mutually exclusive: no two callers are in login at
\* once, and a token is stored at most once.
C9_LoginMutuallyExclusive ==
    /\ \A g, h \in DOMAIN pc :
           (pc[g] \in LoginSection /\ pc[h] \in LoginSection) => g = h
    /\ tokenWrites <= 1

\* the last call was a Cameras() that sent the camera-list request and got a
\* body that decodes
ListDecoded == ret.op = "Cameras" /\ ~io.login /\ BodyDecodes
ListItems == IF io.resp[1].Body.data.hasItems
             THEN io.resp[1].Body.data.items ELSE <<>>

\* the number of owned cameras in the items before item k
RECURSIVE OwnedBefore(_, _)
OwnedBefore(items, k) ==
    IF k <= 1 THEN 0 ELSE OwnedBefore(items, k - 1) + Len(items[k - 1])

\* C10: when the camera-list response decodes, Cameras() on an authenticated
\* session returns a non-nil result and a nil error; the list is empty when
\* items is empty or absent or holds no owned camera, and in general holds
\* exactly the owned cameras of all items in response order.
C10_CamerasListsOwnedInOrder ==
    ListDecoded =>
        /\ ret.err = ""
        /\ ~ret.nilResult
        /\ Len(ret.Cam) = OwnedBefore(ListItems, Len(ListItems) + 1)
        /\ \A i \in 1..Len(ListItems) : \A j \in 1..Len(ListItems[i]) :
               ret.Cam[OwnedBefore(ListItems, i) + j] = ListItems[i][j]

C10_Witness ==
    /\ ListDecoded
    /\ ~io.resp[1].Body.data.hasItems
    /\ ret.err = ""
    /\ ~ret.nilResult
    /\ ret.Cam = <<>>

\* the last call was a Cameras() that sent the camera-list request and got a
\* response
ListAnswered == ret.op = "Cameras" /\ ~io.login /\ GotResponse

\* C11: Cameras() on an authenticated session returns a list without error
\* only if the camera-list response has transport status 200 and body status
\* 200; a well-formed body whose status is not 200 is an error.
C11_CamerasChecksBothStatuses ==
    ListAnswered =>
        /\ (ret.err = "" => /\ io.resp[1].StatusCode = StatusOK
                            /\ BodyDecodes
                            /\ BodyStatusOf = StatusOK)
        /\ ((BodyDecodes /\ BodyStatusOf # StatusOK) => ret.err # "")

\* the last call sent a request other than a login
DataOps == {"Cameras", "SetProperties", "GetEvents", "SaveImage"}
DataSent == ret.op \in DataOps /\ ~io.login /\ io.reqs # <<>>

\* C12: no camera-list, property-update, event or image request is sent while
\* the stored token is empty.
C12_NoDataRequestWithoutToken ==
    DataSent => (\A i \in 1..Len(io.reqs) : io.reqs[i].cookie # "")

\* C13: on an authenticated session every request of getRequest and
\* postRequest carries a cookie header whose value is the stored token, and
\* the login request of Init carries no cookie header.
C13_RequestsCarryStoredToken ==
    /\ (DataSent /\ Authenticated)
           => (\A i \in 1..Len(io.reqs) :
                   io.reqs[i].hasCookie /\ io.reqs[i].cookie = d.Cookie)
    /\ (ret.op = "Init")
           => (\A i \in 1..Len(io.reqs) :
                   ~io.reqs[i].hasCookie /\ io.reqs[i].cookie = "")

C13_Witness ==
    /\ ret.op = "SaveImage"
    /\ DataSent
    /\ io.reqs[1].method = "GET"
    /\ io.reqs[1].hasCookie
    /\ io.reqs[1].cookie = "xyz789"
    /\ d.Cookie = "xyz789"

\* C14: postRequest retries like getRequest: up to 3 attempts, succeeding
\* when any of them obtains a response, failing only after the third.
C14_PostRetriesThreeTimes ==
    (PostSent /\ io.reqs[1].url # "") =>
        /\ (io.nfail < 3 => /\ GotResponse
                            /\ io.reqs[1].attempts = io.nfail + 1)
        /\ (io.nfail >= 3 => /\ ~GotResponse
                             /\ io.reqs[1].attempts = 3)

\* the login of the last call (by Init or by Cameras) returned no error
LoginSucceeded == ret.op \in {"Init", "Cameras"} /\ io.login /\ ret.err = ""

\* C15: after a successful login the stored token is non-empty and is the
\* value of the token header of the login response.
C15_TokenIsResponseHeader ==
    LoginSucceeded =>
        /\ GotResponse
        /\ d.Cookie # ""
        /\ d.Cookie = io.resp[1].SetCookie

C15_Witness ==
    /\ ret.op = "Init"
    /\ LoginSucceeded
    /\ prevInit # <<>>
    /\ io.resp[1].SetCookie = "xyz789"
    /\ d.Cookie = "xyz789"

\* C16: once the token is non-empty, Cameras, SetProperties, GetEvents and
\* SaveImage leave it unchanged whether they succeed or fail; only Init
\* changes it.
C16_OnlyInitChangesToken ==
    [][(d.Cookie # "" /\ d'.Cookie # d.Cookie) => ret'.op = "Init"]_vars

C16_Witness ==
    /\ ret.op = "Cameras"
    /\ ~io.login
    /\ ret.err = "Get Visible Cameras Request Failed"
    /\ Authenticated

\* the Dropcam without its cookie: the endpoint table and the credentials
Configuration(dd) == [dd EXCEPT !.Cookie = ""]

\* C17: only Init writes the endpoint table and the credentials; login,
\* Cameras, SetProperties, GetEvents and SaveImage leave them unchanged, and
\* the implicit login of Cameras sends the stored credentials.
C17_OnlyInitWritesConfiguration ==
    /\ [][ret'.op # "Init" => Configuration(d') = Configuration(d)]_vars
    /\ [](CamerasLoggedIn => io.reqs[1].query = LoginValues(d))

C17_Witness ==
    /\ CamerasLoggedIn
    /\ Authenticated
    /\ d.Creds = [Username |-> "bob", Password |-> "secret"]
    /\ io.reqs[1].query = <<<<"username", "bob">>, <<"password", "secret">>>>
    /\ d.LoginPath = "https://www.dropcam.com/api/v1/login.login"

\* the requests of the last call that are logins, and those that are not
LoginRequests == {i \in 1..Len(io.reqs) : io.reqs[i].query = LoginValues(d)}
DataRequests == {i \in 1..Len(io.reqs) : io.reqs[i].query # LoginValues(d)}

\* C18: one call of a public operation sends at most one login request and
\* at most one data request, each attempted at least once and at most 3
\* times, also when the transport always fails.
C18_BoundedRequestsPerCall ==
    /\ Cardinality(LoginRequests) <= 1
    /\ Cardinality(DataRequests) <= 1
    /\ \A i \in 1..Len(io.reqs) :
           /\ io.reqs[i].attempts >= 1
           /\ io.reqs[i].attempts <= 3

C18_Witness ==
    /\ ret.op = "Cameras"
    /\ io.login
    /\ io.nfail >= 3
    /\ io.reqs[1].attempts = 3
    /\ ~GotResponse
    /\ ret.err = "Login Request Failed"

\* C19: when Init returns an error the stored token is empty afterwards,
\* whatever it was before: a failed Init of an authenticated session discards
\* the token.
C19_FailedInitClearsToken ==
    (ret.op = "Init" /\ ret.err # "") => (d.Cookie = "" /\ ret.nilResult)

C19_Witness ==
    /\ ret.op = "Init"
    /\ prevInit # <<>>
    /\ ~GotResponse
    /\ ret.err = "Login Request Failed"
    /\ d.Cookie = ""
====
